---- MODULE Spec2Model ----
(***************************************************************************)
(* Model of the "simple" kernel module: a procfs node backed by an         *)
(* append-only list of buffer entries (simple_context.c), set up and torn  *)
(* down by a table of init/term stages, driven by simple_driver.c.         *)
(*                                                                         *)
(* Kernel threads serving file operations are the elements of Threads;     *)
(* each owns one file handle.  Every hook of the module is a sequence of   *)
(* steps ordered by pc[t]; the steps of different threads interleave.      *)
(***************************************************************************)
EXTENDS Integers, Sequences, FiniteSets, TLC

(* ------------------------------ bounds -------------------------------- *)
\* write calls issued in a run, over all threads
MaxWrites == 2
\* largest len handed to a write call
MaxLen == 2

(* ------------------------- program constants -------------------------- *)
EFAULT == 14
ENOMEM == 12

\* two kernel threads, each holding its own open handle on the node
Threads == {1, 2}
Lens == 0..MaxLen
AllIds == 1..MaxWrites

VARIABLES
    lc,          \* position of the module lifecycle (init loop, unwinding, ...)
    i,           \* loop index of simple_context_init / simple_context_term_partial
    ret,         \* ret of simple_context_init
    failed,      \* index of the stage whose init returned non-zero, or -1
    init_calls,  \* stage indices whose init ran, in order
    term_calls,  \* stage indices whose term ran, in order
    ctx_kfreed,  \* kfree(ctx) was executed on the caller's context
    proc_entry,  \* ctx->proc_entry: "NULL", "node" or "removed"
    log_state,   \* "none", "live" (list and mutex initialised) or "destroyed"
    list,        \* ctx->buf_list.head: the entries in forward order
    lock,        \* ctx->buf_list.lock: 0 when free, else the owning thread
    heap,        \* ids of the entries currently allocated
    nfreed,      \* how often each entry id was passed to kfree
    pc,          \* pc[t]: position of thread t inside a hook
    call,        \* call[t]: arguments, locals and result of the running hook
    entry,       \* entry[t]: the entry being built by the write of thread t
    fpos,        \* fpos[t]: file position (*pos) of the handle of thread t
    index,       \* index[t]: logical index (*pos of the seq hooks) of the handle
    cursor,      \* cursor[t]: position in list the iterator points at, 0 = NULL
    out,         \* out[t]: bytes emitted by the current read session
    read_pos,    \* read_pos[t]: file position the seq_file of the handle is at
    rbuf,        \* rbuf[t]: bytes the running read call has copied to its caller
    ncalls,      \* write calls issued so far, by all threads
    returned,    \* writes that reported a non-zero count: [id, t, data]
    hb,          \* pairs <<a, b>>: write a had returned when write b was invoked
    delivered,   \* bytes the reads of a handle returned, while it was only read
    wrote        \* wrote[t]: a write call was issued on the handle of thread t

lifecycle_vars == <<lc, i, ret, failed, init_calls, term_calls, ctx_kfreed>>
log_vars == <<proc_entry, log_state, list, lock, heap, nfreed>>
thread_vars == <<pc, call, entry, fpos, index, cursor, out, read_pos, rbuf,
                 ncalls>>
ghost_vars == <<returned, hb, delivered, wrote>>
vars == <<lifecycle_vars, log_vars, thread_vars, ghost_vars>>

(* ------------------------------ helpers -------------------------------- *)
\* the user buffer handed to the c-th write call: n bytes, distinct from
\* each other, from those of every other call, and from the zero byte
UserBuf(c, n) == [j \in 1..n |-> 10 * c + j]

Zeros(n) == [j \in 1..n |-> 0]

\* struct simple_buffer_entry: len and the flexible array buf
NoEntry == [id |-> 0, len |-> 0, buf |-> <<>>]

\* kzalloc(struct_size(entry, buf, len)): a zeroed entry with len bytes of buf
kzalloc(id, len) == [id |-> id, len |-> 0, buf |-> Zeros(len)]

\* copy_from_user(to, from, n) leaving u bytes untransferred: the prefix
\* of n - u bytes is copied, the rest of the destination stays zero
copy_from_user(to, from, n, u) ==
    [j \in 1..n |-> IF j <= n - u THEN from[j] ELSE 0]


(* --------------------------- staged lifecycle -------------------------- *)
\* variant: the two pairs of the table in the other order
g_ctx_init_swapped == <<"procfs", "buffer_list">>

\* g_ctx_init[]: the (init, term) pairs, in table order
g_ctx_init == <<"buffer_list", "procfs">>

\* ARRAY_SIZE(g_ctx_init)
NStages == Len(g_ctx_init)

\* the stage at C index k (0-based)
Stage(k) == g_ctx_init[k + 1]

\* the call record of a thread that is in no hook
NoCall ==
    [op |-> "none", c |-> 0, n |-> 0, alloc |-> FALSE, u |-> 0,
     written |-> 0, pos0 |-> 0, rv |-> 0, locked |-> FALSE, copied |-> FALSE,
     tpos |-> 0]

\* simple_driver_init is about to call simple_context_init on the zeroed
\* static g_ctx.  Each thread's handle is as simple_context_proc_open
\* (seq_open) leaves it: logical index 0, file position 0.
Init ==
    /\ lc = "init" /\ i = 0 /\ ret = 0 /\ failed = -1
    /\ init_calls = <<>> /\ term_calls = <<>> /\ ctx_kfreed = FALSE
    /\ proc_entry = "NULL" /\ log_state = "none" /\ list = <<>> /\ lock = 0
    /\ heap = {} /\ nfreed = [id \in AllIds |-> 0]
    /\ pc = [t \in Threads |-> "idle"]
    /\ call = [t \in Threads |-> NoCall]
    /\ entry = [t \in Threads |-> NoEntry]
    /\ fpos = [t \in Threads |-> 0]
    /\ index = [t \in Threads |-> 0]
    /\ cursor = [t \in Threads |-> 0]
    /\ out = [t \in Threads |-> <<>>]
    /\ read_pos = [t \in Threads |-> 0]
    /\ rbuf = [t \in Threads |-> <<>>]
    /\ ncalls = 0
    /\ returned = {} /\ hb = {}
    /\ delivered = [t \in Threads |-> <<>>]
    /\ wrote = [t \in Threads |-> FALSE]

\* simple_context_buffer_list_init: empty list, unlocked mutex, returns 0
buffer_list_init ==
    /\ list' = <<>> /\ lock' = 0 /\ log_state' = "live"
    /\ ret' = 0
    /\ UNCHANGED <<proc_entry, heap, nfreed>>

\* simple_context_procfs_init: proc_create_data gives a node or NULL
procfs_init ==
    \E created \in BOOLEAN :
        /\ proc_entry' = IF created THEN "node" ELSE "NULL"
        /\ ret' = IF created THEN 0 ELSE -ENOMEM
        /\ UNCHANGED <<log_state, list, lock, heap, nfreed>>

\* one iteration of the loop of simple_context_init: stage i's init, ++i
\* and the loop test; when the loop ends, ret decides between returning 0
\* and simple_context_term_partial(ctx, i)
InitStage ==
    /\ lc = "init" /\ ret = 0 /\ i < NStages
    /\ IF Stage(i) = "buffer_list" THEN buffer_list_init ELSE procfs_init
    /\ i' = i + 1
    /\ init_calls' = Append(init_calls, i)
    /\ failed' = IF ret' # 0 THEN i ELSE failed
    /\ lc' = IF ret' = 0 /\ i' < NStages THEN "init"
             ELSE IF ret' # 0 THEN "unwind" ELSE "live"
    /\ UNCHANGED <<term_calls, ctx_kfreed, thread_vars, ghost_vars>>

\* simple_context_procfs_term: proc_remove(ctx->proc_entry).  proc_remove
\* of NULL does nothing; of a node, it waits for the hooks in flight to
\* return and lets no new one start.
procfs_term ==
    /\ proc_entry = "node" => \A t \in Threads : pc[t] = "idle"
    /\ proc_entry' = IF proc_entry = "node" THEN "removed" ELSE proc_entry
    /\ UNCHANGED <<log_state, list, lock, heap, nfreed>>

\* how often the entry id is linked in the list l
Occurrences(l, id) == Cardinality({k \in 1..Len(l) : l[k].id = id})

\* variant: the list walk left out, only mutex_destroy
buffer_list_term_leak ==
    /\ log_state' = "destroyed"
    /\ UNCHANGED <<proc_entry, list, lock, heap, nfreed>>

\* simple_context_buffer_list_term: kfree of every entry on the list (the
\* head is left pointing at them), then mutex_destroy
buffer_list_term ==
    /\ heap' = heap \ {list[k].id : k \in 1..Len(list)}
    /\ nfreed' = [id \in AllIds |-> nfreed[id] + Occurrences(list, id)]
    /\ log_state' = "destroyed"
    /\ UNCHANGED <<proc_entry, list, lock>>

\* one iteration of simple_context_term_partial entered with index k:
\* while (i-- > 0) g_ctx_init[i].term(ctx).  After the last iteration the
\* caller goes on: the failing simple_context_init runs kfree(ctx) and
\* returns ret, simple_context_term returns.
TermIteration(k, unwinding) ==
    /\ k > 0
    /\ i' = k - 1
    /\ IF Stage(k - 1) = "buffer_list" THEN buffer_list_term ELSE procfs_term
    /\ term_calls' = Append(term_calls, k - 1)
    /\ lc' = IF i' > 0 THEN (IF unwinding THEN "unwind" ELSE "term")
             ELSE (IF unwinding THEN "failed" ELSE "gone")
    /\ ctx_kfreed' = (ctx_kfreed \/ (unwinding /\ i' = 0))
    /\ UNCHANGED <<ret, failed, init_calls, thread_vars, ghost_vars>>

\* simple_context_term_partial(ctx, i) called by the failing init
UnwindStage ==
    /\ lc = "unwind"
    /\ TermIteration(i, TRUE)

\* simple_driver_exit: simple_context_term enters
\* simple_context_term_partial(ctx, ARRAY_SIZE(g_ctx_init))
ModuleExit ==
    /\ lc = "live"
    /\ TermIteration(NStages, FALSE)

\* the further iterations of simple_context_term_partial in simple_context_term
TermStage ==
    /\ lc = "term"
    /\ TermIteration(i, FALSE)

(* ------------------------------ the mutex ------------------------------ *)
\* variant: a lock that never makes its caller wait
mutex_available_always == TRUE

\* mutex_lock(&ctx->buf_list.lock) returns only once the mutex is free
mutex_available == lock = 0

\* variant: the mutex left held by its owner
mutex_unlock_missing(t) == t

\* mutex_unlock(&ctx->buf_list.lock) by its owner t: the mutex is free
mutex_unlock(t) == 0

(* -------------------------------- write -------------------------------- *)
\* variant: the mutex taken before the copy from userspace
write_steps_lock_first == <<"lock", "copy", "add", "unlock">>

\* the order of the statements of simple_context_proc_write that follow a
\* successful kzalloc: copy, mutex_lock, list_add_tail, mutex_unlock
write_steps == <<"copy", "lock", "add", "unlock">>

\* the statement that follows statement p
AfterStep(p) ==
    write_steps[(CHOOSE k \in 1..Len(write_steps) : write_steps[k] = p) + 1]

\* variant: the allocation failure reported as an error code
AllocFailReturn_enomem == -ENOMEM

\* what simple_context_proc_write returns when kzalloc fails
AllocFailReturn == 0

\* variant: the result of copy_from_user ignored
Written_all(n, u) == n

\* written = len - copy_from_user(...)
Written(n, u) == n - u

\* variant: the !written check left out
NoneWritten_never(written) == FALSE

\* if (!written)
NoneWritten(written) == written = 0

\* variant: list_add, which links the entry right after the head
list_add_head(e, l) == <<e>> \o l

\* list_add_tail(&entry->node, &ctx->buf_list.head)
list_add_tail(e, l) == Append(l, e)

\* kfree(entry) of the entry id
kfree_entry(id) ==
    /\ heap' = heap \ {id}
    /\ nfreed' = [nfreed EXCEPT ![id] = @ + 1]

\* simple_context_proc_write is entered with a buffer of len n; kzalloc
\* either fails (return 0) or gives a zeroed entry
WriteCall(t) ==
    /\ proc_entry = "node" /\ pc[t] = "idle"
    /\ ncalls < MaxWrites
    /\ \E n \in Lens, ok \in BOOLEAN :
         LET c == ncalls + 1
             cl == [op |-> "write", c |-> c, n |-> n, alloc |-> ok, u |-> 0,
                    written |-> 0, pos0 |-> fpos[t], rv |-> 0,
                    locked |-> FALSE, copied |-> FALSE, tpos |-> 0]
         IN  /\ ncalls' = c
             /\ hb' = hb \cup {<<a.id, c>> : a \in returned}
             /\ wrote' = [wrote EXCEPT ![t] = TRUE]
             /\ delivered' = [delivered EXCEPT ![t] = <<>>]
             /\ IF ok
                  THEN /\ heap' = heap \cup {c}
                       /\ entry' = [entry EXCEPT ![t] = kzalloc(c, n)]
                       /\ pc' = [pc EXCEPT ![t] = write_steps[1]]
                       /\ call' = [call EXCEPT ![t] = cl]
                  ELSE /\ call' = [call EXCEPT ![t] =
                                      [cl EXCEPT !.rv = AllocFailReturn]]
                       /\ pc' = [pc EXCEPT ![t] = "ret"]
                       /\ UNCHANGED <<heap, entry>>
    /\ UNCHANGED <<lifecycle_vars, proc_entry, log_state, list, lock, nfreed,
                   fpos, index, cursor, out, read_pos, rbuf, returned>>

\* the bulk copy from userspace, entry->len = written, and the !written check:
\* kfree and -EFAULT when nothing was copied
WriteCopy(t) ==
    /\ pc[t] = "copy"
    /\ \E u \in 0..call[t].n :
         LET n == call[t].n
             written == Written(n, u)
             e == [entry[t] EXCEPT
                     !.buf = copy_from_user(entry[t].buf,
                                            UserBuf(call[t].c, n), n, u),
                     !.len = written]
             cl == [call[t] EXCEPT !.u = u, !.written = written,
                                   !.copied = TRUE]
         IN  IF NoneWritten(written)
               THEN /\ kfree_entry(e.id)
                    /\ entry' = [entry EXCEPT ![t] = NoEntry]
                    /\ call' = [call EXCEPT ![t] = [cl EXCEPT !.rv = -EFAULT]]
                    /\ pc' = [pc EXCEPT ![t] = "ret"]
               ELSE /\ entry' = [entry EXCEPT ![t] = e]
                    /\ call' = [call EXCEPT ![t] = cl]
                    /\ pc' = [pc EXCEPT ![t] = AfterStep("copy")]
                    /\ UNCHANGED <<heap, nfreed>>
    /\ UNCHANGED <<lifecycle_vars, proc_entry, log_state, list, lock,
                   fpos, index, cursor, out, read_pos, rbuf, ncalls,
                   ghost_vars>>

\* mutex_lock(&ctx->buf_list.lock) in write
WriteLock(t) ==
    /\ pc[t] = "lock" /\ mutex_available
    /\ lock' = t
    /\ call' = [call EXCEPT ![t].locked = TRUE]
    /\ pc' = [pc EXCEPT ![t] = AfterStep("lock")]
    /\ UNCHANGED <<lifecycle_vars, proc_entry, log_state, list, heap, nfreed,
                   entry, fpos, index, cursor, out, read_pos, rbuf, ncalls,
                   ghost_vars>>

\* list_add_tail under the lock
WriteAdd(t) ==
    /\ pc[t] = "add"
    /\ list' = list_add_tail(entry[t], list)
    /\ pc' = [pc EXCEPT ![t] = AfterStep("add")]
    /\ UNCHANGED <<lifecycle_vars, proc_entry, log_state, lock, heap, nfreed,
                   call, entry, fpos, index, cursor, out, read_pos, rbuf,
                   ncalls, ghost_vars>>

\* mutex_unlock, *pos += written, return written
WriteUnlock(t) ==
    /\ pc[t] = "unlock"
    /\ lock' = mutex_unlock(t)
    /\ fpos' = [fpos EXCEPT ![t] = @ + call[t].written]
    /\ call' = [call EXCEPT ![t].rv = call[t].written]
    /\ returned' = returned \cup
          {[id |-> call[t].c, t |-> t,
            data |-> SubSeq(UserBuf(call[t].c, call[t].n), 1,
                            call[t].written)]}
    /\ entry' = [entry EXCEPT ![t] = NoEntry]
    /\ pc' = [pc EXCEPT ![t] = "ret"]
    /\ UNCHANGED <<lifecycle_vars, proc_entry, log_state, list, heap, nfreed,
                   index, cursor, out, read_pos, rbuf, ncalls, hb, delivered,
                   wrote>>

\* the write system call is back in userspace with call[t].rv: the frame
\* of the hook is gone
WriteReturn(t) ==
    /\ pc[t] = "ret" /\ call[t].op = "write"
    /\ call' = [call EXCEPT ![t] = NoCall]
    /\ pc' = [pc EXCEPT ![t] = "idle"]
    /\ UNCHANGED <<lifecycle_vars, log_vars, entry, fpos, index,
                   cursor, out, read_pos, rbuf, ncalls, ghost_vars>>

(* --------------------------------- read -------------------------------- *)
\* variant: the iteration started one entry late
seq_list_start_late(l, pos) == IF pos + 1 < Len(l) THEN pos + 2 ELSE 0

\* seq_list_start(head, pos): the entry at logical index pos, or NULL (0)
seq_list_start(l, pos) == IF pos < Len(l) THEN pos + 1 ELSE 0

\* seq_list_next(v, head, ppos): the entry after v, or NULL (0) at the head
seq_list_next(v, l) == IF v < Len(l) THEN v + 1 ELSE 0

\* variant: the whole allocated array emitted, not entry->len bytes
seq_write_alloc(e) == e.buf

\* seq_write(seq, entry->buf, entry->len): the bytes show emits for e
seq_write(e) == [j \in 1..e.len |-> e.buf[j]]

\* traverse(m, offset), the check after next: the record just shown, of
\* cnt bytes, began at file position tpos.  "cut": offset lies inside it,
\* its tail stays buffered; "done": it ends at offset; "on": go on
traverse_step(tpos, cnt, offset) ==
    IF tpos + cnt > offset THEN "cut"
    ELSE IF tpos + cnt = offset THEN "done" ELSE "on"

\* simple_context_seq_start: take the lock, find the entry at *pos.
\* seq_read_iter calls it twice at most in one read call: when the file
\* position is not where the seq_file left it (a write on the handle moved
\* it), first from index 0 to walk to that position (traverse); then, from
\* the index reached, for the records to return.  What the walk left in
\* the buffer is copied to the caller before the second start.
SeqStart(t) ==
    /\ pc[t] \in {"idle", "again"}
    /\ pc[t] = "idle" => proc_entry = "node"
    /\ mutex_available
    /\ lock' = t
    /\ LET fresh == pc[t] = "idle"
           trav == fresh /\ fpos[t] # read_pos[t] /\ fpos[t] # 0
           idx == IF fresh /\ (trav \/ fpos[t] = 0) THEN 0 ELSE index[t]
           v == seq_list_start(list, idx)
       IN  /\ index' = [index EXCEPT ![t] = idx]
           /\ cursor' = [cursor EXCEPT ![t] = v]
           /\ pc' = [pc EXCEPT ![t] = IF v = 0 THEN "stop" ELSE "show"]
           /\ call' = [call EXCEPT ![t] =
                         [NoCall EXCEPT
                            !.op = IF trav THEN "traverse" ELSE "read",
                            !.pos0 = idx, !.locked = TRUE]]
           /\ rbuf' = [rbuf EXCEPT ![t] = IF trav THEN <<>> ELSE out[t]]
           /\ read_pos' = IF fresh /\ ~trav
                            THEN [read_pos EXCEPT ![t] = fpos[t]]
                            ELSE read_pos
    /\ out' = [out EXCEPT ![t] = <<>>]
    /\ UNCHANGED <<lifecycle_vars, proc_entry, log_state, list, heap, nfreed,
                   entry, fpos, ncalls, ghost_vars>>

\* simple_context_seq_show: emit the payload of the entry at the cursor
SeqShow(t) ==
    /\ pc[t] = "show"
    /\ out' = [out EXCEPT ![t] = @ \o seq_write(list[cursor[t]])]
    /\ pc' = [pc EXCEPT ![t] = "next"]
    /\ UNCHANGED <<lifecycle_vars, log_vars, call, entry, fpos, index,
                   cursor, read_pos, rbuf, ncalls, ghost_vars>>

\* simple_context_seq_next: advance the cursor, ++*pos.  In the walk to
\* the file position, seq_file then drops the record from its buffer, or
\* keeps the part of it beyond the position and stops.
SeqNext(t) ==
    /\ pc[t] = "next"
    /\ LET v == seq_list_next(cursor[t], list)
           cnt == Len(out[t])
           step == traverse_step(call[t].tpos, cnt, fpos[t])
       IN  /\ cursor' = [cursor EXCEPT ![t] = v]
           /\ IF call[t].op = "traverse"
                THEN /\ out' = [out EXCEPT ![t] =
                                  IF step = "cut"
                                    THEN SubSeq(@, fpos[t] - call[t].tpos + 1,
                                                cnt)
                                    ELSE <<>>]
                     /\ call' = [call EXCEPT ![t].tpos =
                                   IF step = "cut" THEN @ ELSE @ + cnt]
                     /\ pc' = [pc EXCEPT ![t] =
                                 IF step = "on" /\ v # 0 THEN "show"
                                                         ELSE "stop"]
                ELSE /\ pc' = [pc EXCEPT ![t] =
                                 IF v = 0 THEN "stop" ELSE "show"]
                     /\ UNCHANGED <<out, call>>
    /\ index' = [index EXCEPT ![t] = @ + 1]
    /\ UNCHANGED <<lifecycle_vars, log_vars, entry, fpos, read_pos, rbuf,
                   ncalls, ghost_vars>>

\* simple_context_seq_stop: release the lock.  The seq_file helper calls it
\* at the end of the sequence, or earlier once its buffer holds output.
\* After the walk to the file position the read call goes on to its second
\* start; otherwise the buffered output is copied to the caller, both
\* positions advance by the bytes copied and the read returns them.
SeqStop(t) ==
    /\ \/ pc[t] = "stop"
       \/ pc[t] = "show" /\ out[t] # <<>>
    /\ lock' = mutex_unlock(t)
    /\ cursor' = [cursor EXCEPT ![t] = 0]
    /\ IF call[t].op = "traverse"
         THEN /\ read_pos' = [read_pos EXCEPT ![t] = fpos[t]]
              /\ call' = [call EXCEPT ![t] = NoCall]
              /\ pc' = [pc EXCEPT ![t] = "again"]
              /\ UNCHANGED <<out, rbuf, fpos, delivered>>
         ELSE LET copied == rbuf[t] \o out[t]
              IN  /\ rbuf' = [rbuf EXCEPT ![t] = copied]
                  /\ out' = [out EXCEPT ![t] = <<>>]
                  /\ fpos' = [fpos EXCEPT ![t] = @ + Len(copied)]
                  /\ read_pos' = [read_pos EXCEPT ![t] = @ + Len(copied)]
                  /\ call' = [call EXCEPT ![t] =
                                [NoCall EXCEPT !.op = "read",
                                               !.pos0 = call[t].pos0,
                                               !.rv = Len(copied)]]
                  /\ delivered' = [delivered EXCEPT ![t] =
                                     IF wrote[t] THEN @ ELSE @ \o copied]
                  /\ pc' = [pc EXCEPT ![t] = "ret"]
    /\ UNCHANGED <<lifecycle_vars, proc_entry, log_state, list, heap, nfreed,
                   entry, index, ncalls, returned, hb, wrote>>

\* the read system call is back in userspace with the bytes of rbuf[t]
ReadReturn(t) ==
    /\ pc[t] = "ret" /\ call[t].op = "read"
    /\ call' = [call EXCEPT ![t] = NoCall]
    /\ rbuf' = [rbuf EXCEPT ![t] = <<>>]
    /\ pc' = [pc EXCEPT ![t] = "idle"]
    /\ UNCHANGED <<lifecycle_vars, log_vars, entry, fpos, index,
                   cursor, out, read_pos, ncalls, ghost_vars>>

(* ---------------------------- specification ---------------------------- *)
Next ==
    \/ InitStage
    \/ UnwindStage
    \/ ModuleExit
    \/ TermStage
    \/ \E t \in Threads : WriteCall(t)
    \/ \E t \in Threads : WriteCopy(t)
    \/ \E t \in Threads : WriteLock(t)
    \/ \E t \in Threads : WriteAdd(t)
    \/ \E t \in Threads : WriteUnlock(t)
    \/ \E t \in Threads : WriteReturn(t)
    \/ \E t \in Threads : SeqStart(t)
    \/ \E t \in Threads : SeqShow(t)
    \/ \E t \in Threads : SeqNext(t)
    \/ \E t \in Threads : SeqStop(t)
    \/ \E t \in Threads : ReadReturn(t)

Spec == Init /\ [][Next]_vars

\* a step of thread t inside a hook that waits for nothing
Running(t) ==
    \/ WriteCopy(t) \/ WriteAdd(t) \/ WriteUnlock(t) \/ WriteReturn(t)
    \/ SeqShow(t) \/ SeqNext(t) \/ SeqStop(t) \/ ReadReturn(t)

\* mutex_lock inside a hook that is under way: the write's, and the second
\* start of a read call
Locking(t) == WriteLock(t) \/ (pc[t] = "again" /\ SeqStart(t))

\* the scheduler runs every thread that can run, and the mutex passes to a
\* thread that keeps waiting for it; nothing makes userspace issue a call
FairSpec ==
    /\ Spec
    /\ \A t \in Threads : WF_vars(Running(t)) /\ SF_vars(Locking(t))


(* ------------------------- vocabulary of the properties ---------------- *)
\* the bytes of an entry: the first len bytes of its array
Payload(e) == SubSeq(e.buf, 1, e.len)

RECURSIVE ConcatPayloads(_)
\* the payloads of the entries of l, concatenated in list order
ConcatPayloads(l) ==
    IF l = <<>> THEN <<>> ELSE Payload(Head(l)) \o ConcatPayloads(Tail(l))

\* the positions of the list at which the entry id is linked
Positions(id) == {k \in 1..Len(list) : list[k].id = id}

\* thread t is inside (or just back from) a write call
InWrite(t) == call[t].op = "write"

\* thread t is back from a write call whose result is call[t].rv
WriteDone(t) == pc[t] = "ret" /\ InWrite(t)

\* thread t is inside a read session: between start and stop
InSession(t) == pc[t] \in {"show", "next", "stop"}

\* the ids of the writes that reported a non-zero count
ReturnedIds == {r.id : r \in returned}

(* -------------------------------- C1 ----------------------------------- *)
\* C1: when stage k of the staged initialization fails, term has run
\* exactly once for each of the stages k-1 ... 0, in that order, and not
\* for stage k, when the error is returned.
C1_UnwindSkipsFailedStage ==
    lc = "failed" => term_calls = [j \in 1..failed |-> failed - j]

(* -------------------------------- C2 ----------------------------------- *)
\* C2: a write call of length 0 whose allocation succeeds returns 0, not
\* an error code.
C2_ZeroWriteReturnsZero ==
    \A t \in Threads :
        (WriteDone(t) /\ call[t].alloc /\ call[t].n = 0) => call[t].rv = 0

(* -------------------------------- C3 ----------------------------------- *)
\* C3: no step of a write call of length 0 changes the list: the sequence
\* of entries (and so a full read from position 0) is the same before and
\* after the call.
C3_ZeroWriteKeepsLog ==
    [][\A t \in Threads :
          (/\ \/ InWrite(t) /\ call[t].n = 0
              \/ call'[t].op = "write" /\ call'[t].n = 0
           /\ <<pc[t], call[t]>> # <<pc'[t], call'[t]>>)
          => (list' = list /\ ConcatPayloads(list') = ConcatPayloads(list))
      ]_vars

\* a zero-length write has returned while the log holds entries
C3_Witness ==
    \E t \in Threads :
        WriteDone(t) /\ call[t].alloc /\ call[t].n = 0 /\ call[t].copied
        /\ list # <<>>

(* -------------------------------- C4 ----------------------------------- *)
\* C4: order preservation.  When write a had returned before write b was
\* invoked and both reported a non-zero count, the entry of a is linked at
\* a strictly smaller index than the entry of b.
C4_OrderPreserved ==
    \A p \in hb :
        (p[1] \in ReturnedIds /\ p[2] \in ReturnedIds) =>
            /\ Positions(p[1]) # {} /\ Positions(p[2]) # {}
            /\ \A ka \in Positions(p[1]), kb \in Positions(p[2]) : ka < kb

\* two writes, the second invoked after the first returned, both appended
C4_Witness ==
    \E p \in hb : p[1] \in ReturnedIds /\ p[2] \in ReturnedIds
                  /\ Len(list) >= 2

(* -------------------------------- C5 ----------------------------------- *)
\* C5: concatenation.  A read session that started at logical index 0 and
\* reached the end of the sequence has emitted exactly the payloads of all
\* entries of the log, in list order, each with its len bytes.
C5_Concatenation ==
    \A t \in Threads :
        (pc[t] = "stop" /\ call[t].op = "read" /\ call[t].pos0 = 0)
            => out[t] = ConcatPayloads(list)

\* a full session over a log of two entries, one of them a partial copy
C5_Witness ==
    \E t \in Threads :
        /\ pc[t] = "stop" /\ call[t].op = "read" /\ call[t].pos0 = 0
        /\ Len(list) >= 2
        /\ \E k \in 1..Len(list) : list[k].len < Len(list[k].buf)

(* -------------------------------- C6 ----------------------------------- *)
\* C6: snapshot read.  Between a reader's start and its stop no step
\* changes the list, and a session that reached the end of the sequence
\* has emitted the entries from its start index on, as they were linked
\* when it started (all those appended before, none appended after).
C6_SnapshotRead ==
    /\ [][(\E t \in Threads : InSession(t)) => list' = list]_vars
    /\ [](\A t \in Threads :
            (pc[t] = "stop" /\ call[t].op = "read") =>
                /\ call[t].pos0 <= Len(list) =>
                     out[t] = ConcatPayloads(
                                 SubSeq(list, call[t].pos0 + 1, Len(list)))
                /\ lock = t)

\* a reader is in the middle of a session while a writer waits for the lock
C6_Witness ==
    \E r \in Threads, w \in Threads :
        /\ pc[r] = "next" /\ pc[w] = "lock"
        /\ Len(list) >= 1

(* -------------------------------- C7 ----------------------------------- *)
\* C7: concurrent safety.  Once every call has returned, the live log holds
\* exactly the payloads of the writes that reported a non-zero count, each
\* exactly once, and the writes of one thread appear in the order of its
\* calls.
C7_ConcurrentSafety ==
    ((\A t \in Threads : pc[t] \in {"idle", "ret"}) /\ log_state = "live") =>
        /\ Len(list) = Cardinality(returned)
        /\ \A r \in returned :
             Cardinality({k \in 1..Len(list) : Payload(list[k]) = r.data}) = 1
        /\ \A r1 \in returned, r2 \in returned :
             (r1.t = r2.t /\ r1.id < r2.id) =>
                 \A k1 \in Positions(r1.id), k2 \in Positions(r2.id) : k1 < k2

\* two writes that overlapped in time have both returned and are in the log
C7_Witness ==
    /\ \A t \in Threads : pc[t] \in {"idle", "ret"}
    /\ log_state = "live"
    /\ \E r1 \in returned, r2 \in returned :
         /\ r1.t # r2.t
         /\ <<r1.id, r2.id>> \notin hb /\ <<r2.id, r1.id>> \notin hb
    /\ Len(list) = 2

(* -------------------------------- C8 ----------------------------------- *)
\* C8: payload fidelity.  A write of n bytes of which u < n stayed
\* untransferred returns n - u, and its entry has len n - u and, as
\* payload and as output of show, the first n - u bytes of the user buffer.
C8_PayloadFidelity ==
    \A t \in Threads :
        (WriteDone(t) /\ call[t].alloc /\ call[t].copied
         /\ call[t].u < call[t].n) =>
            LET k == call[t].n - call[t].u
                prefix == SubSeq(UserBuf(call[t].c, call[t].n), 1, k)
            IN  /\ call[t].rv = k
                /\ Cardinality(Positions(call[t].c)) = 1
                /\ \A j \in Positions(call[t].c) :
                     /\ list[j].len = k
                     /\ Payload(list[j]) = prefix
                     /\ seq_write(list[j]) = prefix

\* a write whose copy faulted part of the way has returned
C8_Witness ==
    \E t \in Threads :
        WriteDone(t) /\ call[t].alloc /\ call[t].copied
        /\ 0 < call[t].u /\ call[t].u < call[t].n

(* -------------------------------- C9 ----------------------------------- *)
\* C9: a write of n >= 1 bytes whose copy transfers nothing returns
\* -EFAULT, has freed its entry, and has left the list and the file
\* position of its handle as they were.
C9_FaultingWrite ==
    \A t \in Threads :
        (WriteDone(t) /\ call[t].alloc /\ call[t].copied
         /\ call[t].n >= 1 /\ call[t].u = call[t].n) =>
            /\ call[t].rv = -EFAULT
            /\ call[t].c \notin heap /\ nfreed[call[t].c] = 1
            /\ Positions(call[t].c) = {}
            /\ fpos[t] = call[t].pos0

\* a fully faulting write has returned while the log holds entries
C9_Witness ==
    \E t \in Threads :
        WriteDone(t) /\ call[t].alloc /\ call[t].copied
        /\ call[t].n >= 1 /\ call[t].u = call[t].n /\ list # <<>>

(* -------------------------------- C10 ---------------------------------- *)
\* C10: a write whose allocation fails returns 0, has copied nothing and
\* never took the lock, and has left the list and the file position of its
\* handle as they were.
C10_AllocFailure ==
    \A t \in Threads :
        (WriteDone(t) /\ ~call[t].alloc) =>
            /\ call[t].rv = 0
            /\ ~call[t].copied /\ ~call[t].locked
            /\ call[t].c \notin heap /\ nfreed[call[t].c] = 0
            /\ Positions(call[t].c) = {}
            /\ fpos[t] = call[t].pos0

\* a write of at least one byte has returned after its allocation failed
C10_Witness ==
    \E t \in Threads :
        WriteDone(t) /\ ~call[t].alloc /\ call[t].n >= 1 /\ list # <<>>

(* -------------------------------- C11 ---------------------------------- *)
\* the positions of term_calls at which the term of the named stage ran
TermPositions(name) ==
    {j \in 1..Len(term_calls) : Stage(term_calls[j]) = name}

\* C11: teardown ordering.  Whenever the buffer log has been destroyed (by
\* simple_context_term or by the unwinding of a failed init), the procfs
\* term ran before the buffer list term, the node is not registered, and
\* no thread is inside a read or write hook.
C11_TeardownOrder ==
    log_state = "destroyed" =>
        /\ \E j \in TermPositions("procfs"), k \in TermPositions("buffer_list") :
             j < k
        /\ proc_entry # "node"
        /\ \A t \in Threads : pc[t] = "idle"

\* the module was unloaded after entries had been appended
C11_Witness ==
    log_state = "destroyed" /\ lc = "gone" /\ list # <<>>

(* -------------------------------- C12 ---------------------------------- *)
\* C12: clean teardown.  No entry is ever passed to kfree twice, a freed
\* entry is not allocated any more, and once teardown is over no entry
\* remains allocated: those on the list were freed by the buffer list
\* term, the others on the error path of their write.
C12_CleanTeardown ==
    /\ \A id \in AllIds : nfreed[id] <= 1 /\ (nfreed[id] = 1 => id \notin heap)
    /\ lc \in {"gone", "failed"} =>
           /\ heap = {}
           /\ \A k \in 1..Len(list) : nfreed[list[k].id] = 1

\* teardown after one write was appended and one freed its entry itself
C12_Witness ==
    /\ lc = "gone" /\ list # <<>>
    /\ \E id \in AllIds : nfreed[id] = 1 /\ Positions(id) = {}

(* -------------------------------- C13 ---------------------------------- *)
\* C13: a thread that is at the bulk copy of write does not hold the log
\* lock and has not taken it yet in this call, and the lock is then either
\* free or held by a thread that is inside its own locked section.
C13_NoLockAcrossCopy ==
    \A t \in Threads :
        pc[t] = "copy" =>
            /\ lock # t /\ ~call[t].locked
            /\ lock # 0 => pc[lock] \in {"add", "unlock", "show", "next", "stop"}

\* one writer is at its copy while the other has taken the lock to append
C13_Witness ==
    \E t \in Threads, o \in Threads :
        pc[t] = "copy" /\ call[t].n >= 1 /\ lock = o /\ pc[o] = "add"

(* -------------------------------- C14 ---------------------------------- *)
\* the entries that are on the list and allocated
Linked == {list[k].id : k \in 1..Len(list)} \cap heap

\* C14: every step that inserts an entry into the sequence, or removes one
\* from it, is taken by a thread that holds the log lock at that step.
C14_MutationUnderLock ==
    [][(Linked' # Linked) =>
          \E t \in Threads : lock = t /\ pc'[t] # pc[t]]_vars

\* C14, amended: every step that inserts an entry into the sequence is
\* the list_add_tail of a thread that holds the log lock; entries leave
\* the sequence only all together, in the buffer list term, which runs
\* without the lock, with the node unregistered and no hook in flight.
C14_InsertUnderLock ==
    [][/\ (list' # list) =>
             /\ \E t \in Threads : lock = t /\ pc[t] = "add" /\ pc'[t] # pc[t]
             /\ Len(list') = Len(list) + 1
       /\ (list' = list /\ Linked' # Linked) =>
             /\ Linked' = {} /\ log_state' = "destroyed"
             /\ lock = 0 /\ proc_entry # "node"
             /\ \A t \in Threads : pc[t] = "idle"
      ]_vars

\* two entries were inserted and then released by the teardown
C14_Witness ==
    log_state = "destroyed" /\ Len(list) = 2 /\ Linked = {}

(* -------------------------------- C15 ---------------------------------- *)
\* C15: append-only.  While the log is live, every step leaves the sequence
\* unchanged or extends it by exactly one entry at the tail; the old
\* sequence (ids, lengths, payload bytes) is a prefix of the new one.
C15_AppendOnly ==
    [][(log_state = "live" /\ log_state' = "live") =>
          \/ list' = list
          \/ /\ Len(list') = Len(list) + 1
             /\ SubSeq(list', 1, Len(list)) = list]_vars

\* a live log that was extended twice
C15_Witness ==
    log_state = "live" /\ Len(list) = 2 /\ list[1].id # list[2].id

(* -------------------------------- C16 ---------------------------------- *)
\* C16: every entry in the sequence has len >= 1, whatever zero-length,
\* faulting and partially faulting writes came before.
C16_EntriesNonEmpty ==
    \A k \in 1..Len(list) : list[k].len >= 1 /\ list[k].len <= Len(list[k].buf)

\* a partially faulting write has just linked its entry, after a write
\* that copied nothing released its own
C16_Witness ==
    \E t \in Threads :
        /\ pc[t] = "unlock" /\ call[t].written < call[t].n
        /\ list # <<>> /\ list[Len(list)].len = call[t].written
        /\ \E id \in AllIds : nfreed[id] = 1 /\ Positions(id) = {}

(* -------------------------------- C20 ---------------------------------- *)
\* C20: simple_context_init never releases the storage of the context it
\* is given, on the success path or on the failure path.
C20_ContextNotFreed == ~ctx_kfreed

(* -------------------------------- C17 ---------------------------------- *)
\* C17: resumable read.  On a handle that is only read, each session
\* starts at the logical index where the one before stopped, and the
\* bytes the reads have returned so far are the payloads of the entries
\* 1 .. index, each once and in list order, whatever was appended between
\* the sessions.
C17_ResumableRead ==
    \A t \in Threads :
        ~wrote[t] =>
            /\ index[t] <= Len(list)
            /\ pc[t] \in {"idle", "ret"} =>
                 delivered[t] = ConcatPayloads(SubSeq(list, 1, index[t]))
            /\ pc[t] \in {"show", "stop"} =>
                 /\ call[t].op = "read"
                 /\ delivered[t] =
                      ConcatPayloads(SubSeq(list, 1, call[t].pos0))
                 /\ out[t] = ConcatPayloads(
                                SubSeq(list, call[t].pos0 + 1, index[t]))

\* a later read of a handle that is only read resumed behind the first
\* entry and returned the second one
C17_Witness ==
    \E t \in Threads :
        /\ ~wrote[t] /\ pc[t] = "ret" /\ call[t].op = "read"
        /\ call[t].pos0 = 1 /\ index[t] = 2
        /\ rbuf[t] = Payload(list[2])
        /\ delivered[t] = Payload(list[1]) \o Payload(list[2])

(* -------------------------------- C18 ---------------------------------- *)
\* C18: on an empty log, a handle that writes k >= 1 bytes (the write
\* returns k and moves its file position to k) and then reads, obtains
\* those k bytes from the read.
C18_WriteThenRead ==
    \A t \in Threads :
        (/\ pc[t] = "ret" /\ call[t].op = "read"
         /\ ncalls = 1 /\ Len(list) = 1
         /\ \E r \in returned : r.t = t /\ r.data = Payload(list[1])
         /\ fpos[t] - Len(rbuf[t]) = list[1].len)
            => rbuf[t] = Payload(list[1])

====
